---- MODULE Spec2Model ----
(***************************************************************************)
(* realsense-rust: the pixel addressing engine (src/frame/pixel.rs), the   *)
(* frame category / frame contract (src/frame/prelude.rs), the Context     *)
(* wrapper (src/context.rs) and PoseData::rotation (src/base.rs).          *)
(*                                                                         *)
(* A pixel is a set of borrowed references into the frame buffer.  A       *)
(* reference is modelled by the index of the element it points to in the   *)
(* typed slice get_pixel builds over the buffer: `elem` is the element     *)
(* width in bytes, `len` the slice length in elements, `refs` the element  *)
(* index bound to every field of the returned PixelKind variant.           *)
(***************************************************************************)
EXTENDS Integers, FiniteSets, Sequences, TLC

VARIABLES call, pixel, frames, result, read, contexts, pose, rotated

vars == <<call, pixel, frames, result, read, contexts, pose, rotated>>

(* The state outside of the frame handles and of the pixel engine.         *)
contextVars == <<contexts, pose, rotated>>

---------------------------------------------------------------------------
(* Bounds of the model.                                                    *)

MaxCol == 2

MaxRow == 2

MaxPad == 1

MaxHandle == 1

MaxContext == 2

MaxClone == 2

MaxComponent == 2

(* Largest row pitch tried: room for MaxCol+1 pixels of the widest format  *)
(* (Xyz32f, three f32) plus padding.                                       *)
MaxStride == (MaxCol + 1) * 12 + MaxPad

MaxHeight == MaxRow + 1

---------------------------------------------------------------------------
(* Rs2Format values.  The thirteen formats get_pixel has an arm for, and   *)
(* some of the formats that fall through to the `_` arm.                   *)

ByteFormats == {"Yuyv", "Uyvy", "Bgr8", "Bgra8", "Rgb8", "Rgba8", "Raw8", "Y8"}

SupportedFormats == ByteFormats \cup {"Y16", "Z16", "Distance", "Disparity32", "Xyz32F"}

UnsupportedFormats == {"Any", "Raw16", "MotionXyz32F"}

Rs2Format == SupportedFormats \cup UnsupportedFormats

(* std::mem::size_of::<u16>() and std::mem::size_of::<f32>().              *)
SizeOfU16 == 2

SizeOfF32 == 4

---------------------------------------------------------------------------
(* The values get_pixel can produce.                                       *)

(* A PixelKind value: variant tag, and for every field the element the     *)
(* reference points to, in a slice of `len` elements of `elem` bytes.      *)
PixelKind(tag, elem, len, refs) ==
    [outcome |-> "pixel", tag |-> tag, elem |-> elem, len |-> len, refs |-> refs]

(* panic!("Unsupported video format."): no value is returned.              *)
Panic == [outcome |-> "panic"]

(* No call has been made.                                                  *)
NoPixel == [outcome |-> "none"]

(* A get_unchecked outside the slice is undefined behaviour: the build may *)
(* fault at the access instead of handing out the dangling reference.      *)
Fault == [outcome |-> "fault"]

---------------------------------------------------------------------------
(* get_pixel, one operator per match arm.                                  *)

Yuyv_colparity(data_size_in_bytes, stride_in_bytes, col, row) ==
    LET offset == (row * stride_in_bytes) + (col \div 2) * 4
        y == IF col % 2 = 0 THEN offset ELSE offset + 2
    IN  PixelKind("Yuyv", 1, data_size_in_bytes,
                  [y |-> y, u |-> offset + 1, v |-> offset + 3])

Yuyv(data_size_in_bytes, stride_in_bytes, col, row) ==
    LET offset == (row * stride_in_bytes) + (col \div 2) * 4
        y == IF row % 2 = 0 THEN offset ELSE offset + 2
    IN  PixelKind("Yuyv", 1, data_size_in_bytes,
                  [y |-> y, u |-> offset + 1, v |-> offset + 3])

Uyvy_chroma_as_yuyv(data_size_in_bytes, stride_in_bytes, col, row) ==
    LET offset == (row * stride_in_bytes) + (col \div 2) * 4
        y == IF row % 2 = 0 THEN offset + 1 ELSE offset + 3
    IN  PixelKind("Uyvy", 1, data_size_in_bytes,
                  [y |-> y, u |-> offset + 1, v |-> offset + 3])

Uyvy(data_size_in_bytes, stride_in_bytes, col, row) ==
    LET offset == (row * stride_in_bytes) + (col \div 2) * 4
        y == IF row % 2 = 0 THEN offset + 1 ELSE offset + 3
    IN  PixelKind("Uyvy", 1, data_size_in_bytes,
                  [y |-> y, u |-> offset, v |-> offset + 2])

Bgr8_four_bytes(data_size_in_bytes, stride_in_bytes, col, row) ==
    LET offset == (row * stride_in_bytes) + (col * 4)
    IN  PixelKind("Bgr8", 1, data_size_in_bytes,
                  [b |-> offset, g |-> offset + 1, r |-> offset + 2])

Bgr8(data_size_in_bytes, stride_in_bytes, col, row) ==
    LET offset == (row * stride_in_bytes) + (col * 3)
    IN  PixelKind("Bgr8", 1, data_size_in_bytes,
                  [b |-> offset, g |-> offset + 1, r |-> offset + 2])

Bgra8(data_size_in_bytes, stride_in_bytes, col, row) ==
    LET offset == (row * stride_in_bytes) + (col * 4)
    IN  PixelKind("Bgra8", 1, data_size_in_bytes,
                  [b |-> offset, g |-> offset + 1, r |-> offset + 2, a |-> offset + 3])

Rgb8_own_variant(data_size_in_bytes, stride_in_bytes, col, row) ==
    LET offset == (row * stride_in_bytes) + (col * 3)
    IN  PixelKind("Rgb8", 1, data_size_in_bytes,
                  [r |-> offset, g |-> offset + 1, b |-> offset + 2])

(* The Rgb8 arm builds PixelKind::Bgr8 with r bound to the first byte.     *)
Rgb8(data_size_in_bytes, stride_in_bytes, col, row) ==
    LET offset == (row * stride_in_bytes) + (col * 3)
    IN  PixelKind("Bgr8", 1, data_size_in_bytes,
                  [r |-> offset, g |-> offset + 1, b |-> offset + 2])

(* The Rgba8 arm builds PixelKind::Bgra8 with r bound to the first byte.   *)
Rgba8(data_size_in_bytes, stride_in_bytes, col, row) ==
    LET offset == (row * stride_in_bytes) + (col * 4)
    IN  PixelKind("Bgra8", 1, data_size_in_bytes,
                  [r |-> offset, g |-> offset + 1, b |-> offset + 2, a |-> offset + 3])

Raw8_next_byte(data_size_in_bytes, stride_in_bytes, col, row) ==
    LET offset == (row * stride_in_bytes) + col + 1
    IN  PixelKind("Raw8", 1, data_size_in_bytes, [val |-> offset])

Raw8(data_size_in_bytes, stride_in_bytes, col, row) ==
    LET offset == (row * stride_in_bytes) + col
    IN  PixelKind("Raw8", 1, data_size_in_bytes, [val |-> offset])

Y8(data_size_in_bytes, stride_in_bytes, col, row) ==
    LET offset == (row * stride_in_bytes) + col
    IN  PixelKind("Y8", 1, data_size_in_bytes, [y |-> offset])

Y16_byte_stride(data_size_in_bytes, stride_in_bytes, col, row) ==
    LET size == data_size_in_bytes \div SizeOfU16
        offset == (row * stride_in_bytes) + col
    IN  PixelKind("Y16", SizeOfU16, size, [y |-> offset])

Y16(data_size_in_bytes, stride_in_bytes, col, row) ==
    LET size == data_size_in_bytes \div SizeOfU16
        stride == stride_in_bytes \div SizeOfU16
        offset == (row * stride) + col
    IN  PixelKind("Y16", SizeOfU16, size, [y |-> offset])

Z16(data_size_in_bytes, stride_in_bytes, col, row) ==
    LET size == data_size_in_bytes \div SizeOfU16
        stride == stride_in_bytes \div SizeOfU16
        offset == (row * stride) + col
    IN  PixelKind("Z16", SizeOfU16, size, [depth |-> offset])

Distance(data_size_in_bytes, stride_in_bytes, col, row) ==
    LET size == data_size_in_bytes \div SizeOfF32
        stride == stride_in_bytes \div SizeOfF32
        offset == (row * stride) + col
    IN  PixelKind("Distance", SizeOfF32, size, [distance |-> offset])

Disparity32(data_size_in_bytes, stride_in_bytes, col, row) ==
    LET size == data_size_in_bytes \div SizeOfF32
        stride == stride_in_bytes \div SizeOfF32
        offset == (row * stride) + col
    IN  PixelKind("Disparity32", SizeOfF32, size, [disparity |-> offset])

Xyz32F_three_per_col(data_size_in_bytes, stride_in_bytes, col, row) ==
    LET size == data_size_in_bytes \div SizeOfF32
        stride == stride_in_bytes \div SizeOfF32
        offset == (row * stride) + col * 3
    IN  PixelKind("Xyz32f", SizeOfF32, size,
                  [x |-> offset, y |-> offset + 1, z |-> offset + 2])

Xyz32F(data_size_in_bytes, stride_in_bytes, col, row) ==
    LET size == data_size_in_bytes \div SizeOfF32
        stride == stride_in_bytes \div SizeOfF32
        offset == (row * stride) + col
    IN  PixelKind("Xyz32f", SizeOfF32, size,
                  [x |-> offset, y |-> offset + 1, z |-> offset + 2])

Unsupported_guess_raw8(data_size_in_bytes, stride_in_bytes, col, row) ==
    Raw8(data_size_in_bytes, stride_in_bytes, col, row)

(* The `_` arm.                                                            *)
Unsupported(data_size_in_bytes, stride_in_bytes, col, row) ==
    Panic

get_pixel(format, data_size_in_bytes, stride_in_bytes, col, row) ==
    CASE format = "Yuyv"        -> Yuyv(data_size_in_bytes, stride_in_bytes, col, row)
      [] format = "Uyvy"        -> Uyvy(data_size_in_bytes, stride_in_bytes, col, row)
      [] format = "Bgr8"        -> Bgr8(data_size_in_bytes, stride_in_bytes, col, row)
      [] format = "Bgra8"       -> Bgra8(data_size_in_bytes, stride_in_bytes, col, row)
      [] format = "Rgb8"        -> Rgb8(data_size_in_bytes, stride_in_bytes, col, row)
      [] format = "Rgba8"       -> Rgba8(data_size_in_bytes, stride_in_bytes, col, row)
      [] format = "Raw8"        -> Raw8(data_size_in_bytes, stride_in_bytes, col, row)
      [] format = "Y8"          -> Y8(data_size_in_bytes, stride_in_bytes, col, row)
      [] format = "Y16"         -> Y16(data_size_in_bytes, stride_in_bytes, col, row)
      [] format = "Z16"         -> Z16(data_size_in_bytes, stride_in_bytes, col, row)
      [] format = "Distance"    -> Distance(data_size_in_bytes, stride_in_bytes, col, row)
      [] format = "Disparity32" -> Disparity32(data_size_in_bytes, stride_in_bytes, col, row)
      [] format = "Xyz32F"      -> Xyz32F(data_size_in_bytes, stride_in_bytes, col, row)
      [] OTHER                  -> Unsupported(data_size_in_bytes, stride_in_bytes, col, row)

(* The elements a pixel value refers to.                                   *)
Touched(p) == IF p.outcome = "pixel" THEN {p.refs[f] : f \in DOMAIN p.refs} ELSE {}

(* slice.get_unchecked(i) is defined only for i < slice.len().             *)
Defined(p) == \A i \in Touched(p) : i < p.len

(* What a call can end in: the value the arm computes, or, when one of its *)
(* get_unchecked calls is outside the slice, anything the undefined        *)
(* behaviour produces (the dangling reference or a fault).                 *)
Outcomes(p) == IF Defined(p) THEN {p} ELSE {p, Fault}

---------------------------------------------------------------------------
(* The calls tried: every format, every row pitch up to MaxStride, a       *)
(* buffer of 0..MaxHeight rows of that pitch, and coordinates inside and   *)
(* outside of it.                                                          *)

Calls ==
    { [format |-> f, data_size_in_bytes |-> s * h, stride_in_bytes |-> s,
       col |-> c, row |-> r] :
        f \in Rs2Format, s \in 0..MaxStride, h \in 0..MaxHeight,
        c \in 0..MaxCol, r \in 0..MaxRow }

GetPixel ==
    /\ pixel = NoPixel
    /\ pixel' \in Outcomes(get_pixel(call.format, call.data_size_in_bytes,
                                     call.stride_in_bytes, call.col, call.row))
    /\ UNCHANGED <<call, frames, result, read, contextVars>>

---------------------------------------------------------------------------
(* Frame handles and typed frame wrappers.                                 *)

Handles == 1..MaxHandle

(* Rs2Extension and Rs2StreamKind tags a native frame handle can report.   *)
Rs2Extension == {"VideoFrame", "DepthFrame"}

Rs2StreamKind == {"Color", "Infrared", "Depth"}

(* The queries a construction makes of the handle, each with the           *)
(* FrameConstructionError variant its failure is reported as.              *)
FrameConstructionError ==
    {"CouldNotGetWidth", "CouldNotGetHeight", "CouldNotGetStride",
     "CouldNotGetBitsPerPixel", "CouldNotGetTimestamp",
     "CouldNotGetTimestampDomain", "CouldNotGetFrameStreamProfile",
     "CouldNotGetDataSize", "CouldNotGetData", "CouldNotGetPointCount"}

(* The typed frame categories: each declares one (extension, kind) pair.   *)
(* The video extension covers more than one stream kind.                   *)
Categories == {"ColorFrame", "InfraredFrame", "DepthFrame"}

(* FrameCategory::extension()                                              *)
extension(T) ==
    CASE T = "ColorFrame"    -> "VideoFrame"
      [] T = "InfraredFrame" -> "VideoFrame"
      [] T = "DepthFrame"    -> "DepthFrame"

(* FrameCategory::kind()                                                   *)
kind(T) ==
    CASE T = "ColorFrame"    -> "Color"
      [] T = "InfraredFrame" -> "Infrared"
      [] T = "DepthFrame"    -> "Depth"

has_correct_kind_unchecked(T, handle) == TRUE

(* FrameCategory::has_correct_kind: the frame's stream has the same kind   *)
(* as the frame category.                                                  *)
has_correct_kind(T, handle) == handle.kind = kind(T)

(* Rs2FrameMetadata kinds a frame can be asked for.                        *)
Rs2FrameMetadata == {"FrameCounter", "SensorTimestamp"}

(* Option<c_longlong>: the absent result, and a present value.             *)
None == [present |-> FALSE]

Some(v) == [present |-> TRUE, value |-> v]

(* The integer the native frame reports for a metadata kind it carries.    *)
rs2_get_frame_metadata(handle, metadata_kind) == 0

supports_metadata_always(handle, metadata_kind) == TRUE

(* FrameEx::supports_metadata: whether the frame carries the kind.         *)
supports_metadata(handle, metadata_kind) == metadata_kind \in handle.metadata

metadata_unchecked(handle, metadata_kind) ==
    Some(rs2_get_frame_metadata(handle, metadata_kind))

(* FrameEx::metadata: None if the kind is not supported by the frame.      *)
metadata(handle, metadata_kind) ==
    IF metadata_kind \in handle.metadata
    THEN Some(rs2_get_frame_metadata(handle, metadata_kind))
    ELSE None

(* A handle the sensor layer has not produced yet.                         *)
Absent ==
    [owner |-> "absent", extension |-> "none", kind |-> "none", failing |-> "none",
     metadata |-> {}, category |-> "none", releases |-> 0]

NoResult == [status |-> "none"]

(* No accessor has been called.                                            *)
NoRead == [op |-> "none"]

(* The sensor layer hands a new frame handle to the caller.  The handle    *)
(* reports an extension and a stream kind; `failing` is the query the      *)
(* native SDK answers with an error for this handle, if any; `metadata`    *)
(* are the metadata kinds the native frame carries.                        *)
CreateFrame(h, e, k, q, m) ==
    /\ frames[h].owner = "absent"
    /\ frames' = [frames EXCEPT ![h] =
                    [owner |-> "caller", extension |-> e, kind |-> k, failing |-> q,
                     metadata |-> m, category |-> "none", releases |-> 0]]
    /\ UNCHANGED <<call, pixel, result, read, contextVars>>

TryFrom_drops_wrapper_on_kind_mismatch(h, T) ==
    /\ frames[h].owner = "caller"
    /\ IF frames[h].extension # extension(T)
       THEN /\ result' = [status |-> "mismatch", handle |-> h, category |-> T,
                          tag |-> "extension", expected |-> extension(T),
                          actual |-> frames[h].extension]
            /\ UNCHANGED frames
       ELSE IF frames[h].failing # "none"
       THEN /\ result' = [status |-> "error", handle |-> h, category |-> T,
                          variant |-> frames[h].failing]
            /\ UNCHANGED frames
       ELSE IF ~has_correct_kind(T, frames[h])
       THEN /\ result' = [status |-> "mismatch", handle |-> h, category |-> T,
                          tag |-> "kind", expected |-> kind(T),
                          actual |-> frames[h].kind]
            /\ frames' = [frames EXCEPT ![h].owner = "released",
                                        ![h].releases = @ + 1]
       ELSE /\ result' = [status |-> "ok", handle |-> h, category |-> T]
            /\ frames' = [frames EXCEPT ![h].owner = "wrapper", ![h].category = T]
    /\ UNCHANGED <<call, pixel, read, contextVars>>

(* Building a typed frame of category T from handle h: the extension is    *)
(* compared with T's, the queries of the construction are made, the stream *)
(* kind is compared with T's, and only then the wrapper takes the handle.  *)
TryFrom(h, T) ==
    /\ frames[h].owner = "caller"
    /\ IF frames[h].extension # extension(T)
       THEN /\ result' = [status |-> "mismatch", handle |-> h, category |-> T,
                          tag |-> "extension", expected |-> extension(T),
                          actual |-> frames[h].extension]
            /\ UNCHANGED frames
       ELSE IF frames[h].failing # "none"
       THEN /\ result' = [status |-> "error", handle |-> h, category |-> T,
                          variant |-> frames[h].failing]
            /\ UNCHANGED frames
       ELSE IF ~has_correct_kind(T, frames[h])
       THEN /\ result' = [status |-> "mismatch", handle |-> h, category |-> T,
                          tag |-> "kind", expected |-> kind(T),
                          actual |-> frames[h].kind]
            /\ UNCHANGED frames
       ELSE /\ result' = [status |-> "ok", handle |-> h, category |-> T]
            /\ frames' = [frames EXCEPT ![h].owner = "wrapper", ![h].category = T]
    /\ UNCHANGED <<call, pixel, read, contextVars>>

(* The wrapper goes out of scope: release(handle).                         *)
DropFrame(h) ==
    /\ frames[h].owner = "wrapper"
    /\ frames' = [frames EXCEPT ![h].owner = "released", ![h].category = "none",
                                ![h].releases = @ + 1]
    /\ UNCHANGED <<call, pixel, result, read, contextVars>>

get_owned_raw_still_releases(h) ==
    /\ frames[h].owner = "wrapper"
    /\ frames' = [frames EXCEPT ![h].owner = "caller", ![h].category = "none",
                                ![h].releases = @ + 1]
    /\ UNCHANGED <<call, pixel, result, read, contextVars>>

(* FrameEx::get_owned_raw(self): the wrapper is consumed and the raw       *)
(* handle goes to the caller, who now manages its lifetime; the frame      *)
(* pointer is not destroyed when self goes out of scope.                   *)
get_owned_raw(h) ==
    /\ frames[h].owner = "wrapper"
    /\ frames' = [frames EXCEPT ![h].owner = "caller", ![h].category = "none"]
    /\ UNCHANGED <<call, pixel, result, read, contextVars>>

(* frame.metadata(kind) on the typed frame holding handle h.               *)
Metadata(h, metadata_kind) ==
    /\ frames[h].owner = "wrapper"
    /\ read' = [op |-> "metadata", handle |-> h, kind |-> metadata_kind,
                value |-> metadata(frames[h], metadata_kind)]
    /\ UNCHANGED <<call, pixel, frames, result, contextVars>>

(* frame.supports_metadata(kind) on the typed frame holding handle h.      *)
SupportsMetadata(h, metadata_kind) ==
    /\ frames[h].owner = "wrapper"
    /\ read' = [op |-> "supports_metadata", handle |-> h, kind |-> metadata_kind,
                supported |-> supports_metadata(frames[h], metadata_kind)]
    /\ UNCHANGED <<call, pixel, frames, result, contextVars>>

---------------------------------------------------------------------------
(* Native contexts and pose data: their state before anything is created.  *)

ContextPointers == 1..MaxContext

(* Per native rs2_context pointer: whether rs2_create_context returned it, *)
(* the live Context values holding it, the raw pointers given out by       *)
(* into_raw and not yet wrapped again, the unsafe_clone calls made, and    *)
(* the rs2_delete_context calls made on it.                                *)
NoContexts ==
    [p \in ContextPointers |->
        [created |-> FALSE, wrappers |-> 0, raws |-> 0, clones |-> 0, deletes |-> 0]]

(* Context::new(): rs2_create_context returns a fresh pointer.             *)
Context_new(p) ==
    /\ ~contexts[p].created
    /\ contexts' = [contexts EXCEPT ![p].created = TRUE, ![p].wrappers = 1]
    /\ UNCHANGED <<call, pixel, frames, result, read, pose, rotated>>

(* Context::into_raw(self): mem::forget(self), the pointer is returned.    *)
into_raw(p) ==
    /\ contexts[p].wrappers > 0
    /\ contexts' = [contexts EXCEPT ![p].wrappers = @ - 1, ![p].raws = @ + 1]
    /\ UNCHANGED <<call, pixel, frames, result, read, pose, rotated>>

(* Context::from_raw(ptr), on a pointer into_raw returned, once.           *)
from_raw(p) ==
    /\ contexts[p].raws > 0
    /\ contexts' = [contexts EXCEPT ![p].raws = @ - 1, ![p].wrappers = @ + 1]
    /\ UNCHANGED <<call, pixel, frames, result, read, pose, rotated>>

(* Context::unsafe_clone(&self): a second Context with the same pointer.   *)
unsafe_clone(p) ==
    /\ contexts[p].wrappers > 0
    /\ contexts[p].clones < MaxClone
    /\ contexts' = [contexts EXCEPT ![p].wrappers = @ + 1, ![p].clones = @ + 1]
    /\ UNCHANGED <<call, pixel, frames, result, read, pose, rotated>>

(* impl Drop for Context: rs2_delete_context(self.ptr).                    *)
Context_drop(p) ==
    /\ contexts[p].wrappers > 0
    /\ contexts' = [contexts EXCEPT ![p].wrappers = @ - 1, ![p].deletes = @ + 1]
    /\ UNCHANGED <<call, pixel, frames, result, read, pose, rotated>>

NoPose == [x |-> 0, y |-> 0, z |-> 0, w |-> 0]

NoRotation == [op |-> "none"]

(* The values tried for a component of rs2_quaternion.                     *)
Components == 0..MaxComponent

(* nalgebra's Quaternion::new(w, i, j, k): scalar part first, then the     *)
(* vector part.                                                            *)
Quaternion_new(w, i, j, k) == [w |-> w, i |-> i, j |-> j, k |-> k]

(* Unit::new_unchecked wraps the value as it is, without normalising.      *)
Unit_new_unchecked(q) == q

(* PoseData::rotation: destructures rs2_quaternion { x, y, z, w } and      *)
(* builds Quaternion::new(w, x, z, y).                                     *)
rotation(q) == Unit_new_unchecked(Quaternion_new(q.w, q.x, q.z, q.y))

Rotation ==
    /\ rotated = NoRotation
    /\ rotated' = rotation(pose)
    /\ UNCHANGED <<call, pixel, frames, result, read, contexts, pose>>

---------------------------------------------------------------------------
(* The pixel addressing engine: every call of Calls, then get_pixel.       *)

Init ==
    /\ call \in Calls
    /\ pixel = NoPixel
    /\ frames = [h \in Handles |-> Absent]
    /\ result = NoResult
    /\ read = NoRead
    /\ contexts = NoContexts
    /\ pose = NoPose
    /\ rotated = NoRotation

Next == GetPixel

Spec == Init /\ [][Next]_vars

(* Frame handles: created by the sensor layer, built into typed frames,    *)
(* dropped.                                                                *)

NoCall == [format |-> "none"]

FrameInit ==
    /\ call = NoCall
    /\ pixel = NoPixel
    /\ frames = [h \in Handles |-> Absent]
    /\ result = NoResult
    /\ read = NoRead
    /\ contexts = NoContexts
    /\ pose = NoPose
    /\ rotated = NoRotation

FrameNext ==
    \/ \E h \in Handles, e \in Rs2Extension, k \in Rs2StreamKind,
          q \in FrameConstructionError \cup {"none"} : CreateFrame(h, e, k, q, {})
    \/ \E h \in Handles, T \in Categories : TryFrom(h, T)
    \/ \E h \in Handles : get_owned_raw(h)
    \/ \E h \in Handles : DropFrame(h)

FrameSpec == FrameInit /\ [][FrameNext]_vars

(* The life of a frame handle whose queries succeed: created with any set  *)
(* of metadata kinds, built into a typed frame, read, handed back with     *)
(* get_owned_raw or dropped.                                               *)

LifecycleNext ==
    \/ \E h \in Handles, e \in Rs2Extension, k \in Rs2StreamKind,
          m \in SUBSET Rs2FrameMetadata : CreateFrame(h, e, k, "none", m)
    \/ \E h \in Handles, T \in Categories : TryFrom(h, T)
    \/ \E h \in Handles, k \in Rs2FrameMetadata : Metadata(h, k)
    \/ \E h \in Handles, k \in Rs2FrameMetadata : SupportsMetadata(h, k)
    \/ \E h \in Handles : get_owned_raw(h)
    \/ \E h \in Handles : DropFrame(h)

LifecycleSpec == FrameInit /\ [][LifecycleNext]_vars

(* Contexts: created, turned into raw pointers and back, cloned, dropped.  *)

ContextNext ==
    \/ \E p \in ContextPointers : Context_new(p)
    \/ \E p \in ContextPointers : into_raw(p)
    \/ \E p \in ContextPointers : from_raw(p)
    \/ \E p \in ContextPointers : unsafe_clone(p)
    \/ \E p \in ContextPointers : Context_drop(p)

ContextSpec == FrameInit /\ [][ContextNext]_vars

(* Pose data: every rotation of Components, then PoseData::rotation.       *)

PoseInit ==
    /\ call = NoCall
    /\ pixel = NoPixel
    /\ frames = [h \in Handles |-> Absent]
    /\ result = NoResult
    /\ read = NoRead
    /\ contexts = NoContexts
    /\ pose \in [x : Components, y : Components, z : Components, w : Components]
    /\ rotated = NoRotation

PoseNext == Rotation

PoseSpec == PoseInit /\ [][PoseNext]_vars

---------------------------------------------------------------------------
(* Properties of the pixel addressing engine (checked under Spec).         *)

(* A call has been made and returned a pixel value.                        *)
Returned == pixel.outcome = "pixel"

(* base = row*stride + (col div 2)*4: the 4-byte group of two pixels.      *)
GroupBase == (call.row * call.stride_in_bytes) + (call.col \div 2) * 4

(* Element index row*(stride div e) + col of a view of e-byte elements.    *)
ElementIndex(e) == (call.row * (call.stride_in_bytes \div e)) + call.col

(* C1: for Yuyv and Uyvy the pixel is taken from the 4-byte group at       *)
(* base = row*stride + (col div 2)*4 of the byte view; Yuyv binds u to     *)
(* byte base+1 and v to byte base+3, Uyvy binds u to byte base and v to    *)
(* byte base+2.                                                            *)
C1_ChromaBinding ==
    (Returned /\ call.format \in {"Yuyv", "Uyvy"}) =>
        /\ pixel.elem = 1
        /\ pixel.len = call.data_size_in_bytes
        /\ call.format = "Yuyv" =>
              pixel.tag = "Yuyv" /\ pixel.refs.u = GroupBase + 1 /\ pixel.refs.v = GroupBase + 3
        /\ call.format = "Uyvy" =>
              pixel.tag = "Uyvy" /\ pixel.refs.u = GroupBase /\ pixel.refs.v = GroupBase + 2

C1_Witness ==
    /\ Returned /\ call.format = "Uyvy"
    /\ call.col = 2 /\ call.row = 1 /\ call.stride_in_bytes = 8
    /\ pixel.refs.u = 12 /\ pixel.refs.v = 14

(* The other pixel of the same 4-byte group.                               *)
SiblingCol == IF call.col % 2 = 0 THEN call.col + 1 ELSE call.col - 1

(* C2: for Yuyv and Uyvy the luma byte is chosen by the parity of row and  *)
(* not of col: Yuyv y is byte base (row even) or base+2 (row odd), Uyvy y  *)
(* is byte base+1 (row even) or base+3 (row odd); the call for the other   *)
(* column of the pair (2k, 2k+1), same row, yields the same y byte.        *)
C2_LumaByRowParity ==
    (Returned /\ call.format \in {"Yuyv", "Uyvy"}) =>
        /\ call.format = "Yuyv" =>
              pixel.refs.y = IF call.row % 2 = 0 THEN GroupBase ELSE GroupBase + 2
        /\ call.format = "Uyvy" =>
              pixel.refs.y = IF call.row % 2 = 0 THEN GroupBase + 1 ELSE GroupBase + 3
        /\ get_pixel(call.format, call.data_size_in_bytes, call.stride_in_bytes,
                     SiblingCol, call.row).refs.y = pixel.refs.y

C2_Witness ==
    /\ Returned /\ call.format = "Yuyv"
    /\ call.col = 2 /\ call.row = 1 /\ call.stride_in_bytes = 8
    /\ pixel.refs.y = 14

(* C3: Bgr8/Rgb8 use base = row*stride + col*3 and Bgra8/Rgba8 use         *)
(* base = row*stride + col*4; Bgr8/Bgra8 bind b, g, r (, a) to bytes       *)
(* base+0, +1, +2 (, +3); Rgb8/Rgba8 return the Bgr8/Bgra8 variant with    *)
(* r, g, b (, a) bound to bytes base+0, +1, +2 (, +3).                     *)
C3_PackedColour ==
    LET base3 == (call.row * call.stride_in_bytes) + call.col * 3
        base4 == (call.row * call.stride_in_bytes) + call.col * 4
    IN  Returned =>
        /\ call.format = "Bgr8" =>
              /\ pixel.tag = "Bgr8" /\ pixel.elem = 1
              /\ pixel.refs = [b |-> base3, g |-> base3 + 1, r |-> base3 + 2]
        /\ call.format = "Bgra8" =>
              /\ pixel.tag = "Bgra8" /\ pixel.elem = 1
              /\ pixel.refs = [b |-> base4, g |-> base4 + 1, r |-> base4 + 2, a |-> base4 + 3]
        /\ call.format = "Rgb8" =>
              /\ pixel.tag = "Bgr8" /\ pixel.elem = 1
              /\ pixel.refs = [r |-> base3, g |-> base3 + 1, b |-> base3 + 2]
        /\ call.format = "Rgba8" =>
              /\ pixel.tag = "Bgra8" /\ pixel.elem = 1
              /\ pixel.refs = [r |-> base4, g |-> base4 + 1, b |-> base4 + 2, a |-> base4 + 3]

C3_Witness ==
    /\ Returned /\ call.format = "Rgb8" /\ pixel.tag = "Bgr8"
    /\ call.col = 1 /\ call.row = 1 /\ call.stride_in_bytes = 7
    /\ pixel.refs.r = 10 /\ pixel.refs.b = 12

(* Element size and field of the single-channel formats.                   *)
ChannelSize(f) ==
    CASE f \in {"Raw8", "Y8"} -> 1
      [] f \in {"Y16", "Z16"} -> 2
      [] f \in {"Distance", "Disparity32"} -> 4

ChannelField(f) ==
    CASE f = "Raw8" -> "val"
      [] f \in {"Y8", "Y16"} -> "y"
      [] f = "Z16" -> "depth"
      [] f = "Distance" -> "distance"
      [] f = "Disparity32" -> "disparity"

(* C4: for the single-channel formats of element size e the buffer is      *)
(* viewed as data_size div e elements of e bytes and the one field of the  *)
(* returned value, tagged with the requested format, is the element at     *)
(* index row*(stride div e) + col.                                         *)
C4_SingleChannel ==
    (Returned /\ call.format \in {"Raw8", "Y8", "Y16", "Z16", "Distance", "Disparity32"}) =>
        LET e == ChannelSize(call.format)
        IN  /\ pixel.tag = call.format
            /\ pixel.elem = e
            /\ pixel.len = call.data_size_in_bytes \div e
            /\ DOMAIN pixel.refs = {ChannelField(call.format)}
            /\ pixel.refs[ChannelField(call.format)] = ElementIndex(e)

C4_Witness ==
    /\ Returned /\ call.format = "Y16"
    /\ call.col = 1 /\ call.row = 2 /\ call.stride_in_bytes = 5
    /\ call.data_size_in_bytes = 15
    /\ pixel.len = 7 /\ pixel.refs.y = 5

(* C5: for Xyz32F the buffer is viewed as 4-byte elements and x, y, z are  *)
(* the elements i, i+1, i+2 with i = row*(stride div 4) + col.             *)
C5_Xyz32f ==
    (Returned /\ call.format = "Xyz32F") =>
        /\ pixel.tag = "Xyz32f"
        /\ pixel.elem = 4
        /\ pixel.len = call.data_size_in_bytes \div 4
        /\ pixel.refs = [x |-> ElementIndex(4), y |-> ElementIndex(4) + 1,
                         z |-> ElementIndex(4) + 2]

C5_Witness ==
    /\ Returned /\ call.format = "Xyz32F"
    /\ call.col = 1 /\ call.row = 1 /\ call.stride_in_bytes = 26
    /\ pixel.refs.x = 7 /\ pixel.refs.z = 9

---------------------------------------------------------------------------
(* Bounds of the buffer.                                                   *)

(* Every element the call dereferenced lies inside the buffer:             *)
(* offset + element width <= data_size_in_bytes, offsets in bytes.  A call *)
(* that faulted dereferenced an element outside of it.                     *)
InsideBuffer ==
    /\ pixel.outcome # "fault"
    /\ \A i \in Touched(pixel) :
          (i * pixel.elem) + pixel.elem <= call.data_size_in_bytes

(* The call has been made.                                                 *)
Called == pixel.outcome # "none"

(* Bytes per pixel of a format.                                            *)
BytesPerPixel(f) ==
    CASE f \in {"Yuyv", "Uyvy"} -> 2
      [] f \in {"Bgr8", "Rgb8"} -> 3
      [] f \in {"Bgra8", "Rgba8"} -> 4
      [] f \in {"Raw8", "Y8"} -> 1
      [] f \in {"Y16", "Z16"} -> 2
      [] f \in {"Distance", "Disparity32"} -> 4
      [] f = "Xyz32F" -> 12

(* Bytes of a row of `width` pixels: Yuyv and Uyvy rows are made of whole  *)
(* 4-byte groups of two pixels.                                            *)
RowBytes(f, width) ==
    IF f \in {"Yuyv", "Uyvy"} THEN 4 * ((width + 1) \div 2)
    ELSE width * BytesPerPixel(f)

Widths == 1..(MaxCol + 1)

Heights == 1..MaxHeight

(* C6 as stated: for every supported format and every geometry with       *)
(* width >= 1, height >= 1, stride >= width * bytes-per-pixel and          *)
(* data_size = stride*height, the call at col = width-1, row = height-1    *)
(* touches no byte at or beyond data_size.                                 *)
C6_Original ==
    \A width \in Widths, height \in Heights :
        ( /\ Called
          /\ call.format \in SupportedFormats
          /\ call.col = width - 1 /\ call.row = height - 1
          /\ call.stride_in_bytes >= width * BytesPerPixel(call.format)
          /\ call.data_size_in_bytes = call.stride_in_bytes * height )
        => InsideBuffer

(* C6: for every supported format and every geometry with width >= 1,      *)
(* height >= 1, data_size = stride*height and a stride that holds a row    *)
(* of the format (width * bytes-per-pixel; for Yuyv and Uyvy the whole     *)
(* 4-byte groups, 4*ceil(width/2)), the call at col = width-1,             *)
(* row = height-1 touches no byte at or beyond data_size.                  *)
C6_LastPixelInside ==
    \A width \in Widths, height \in Heights :
        ( /\ Called
          /\ call.format \in SupportedFormats
          /\ call.col = width - 1 /\ call.row = height - 1
          /\ call.stride_in_bytes >= RowBytes(call.format, width)
          /\ call.data_size_in_bytes = call.stride_in_bytes * height )
        => InsideBuffer

(* The last pixel of a 3x2 Yuyv frame whose rows hold two whole groups:    *)
(* v is the last byte of the buffer.                                       *)
C6_Witness ==
    /\ Returned /\ call.format = "Yuyv"
    /\ call.col = 2 /\ call.row = 1
    /\ call.stride_in_bytes = 8 /\ call.data_size_in_bytes = 16
    /\ pixel.refs.v = 15

(* C7 as stated: whatever col, row, stride and data_size are, every        *)
(* offset a call dereferences satisfies offset + element size <= data_size.*)
C7_Original == Called => InsideBuffer

(* C7: get_pixel does not check its arguments; for every call with         *)
(* col < width, row < height, a stride that holds a row of width pixels of *)
(* the format and data_size = stride*height, every offset it dereferences  *)
(* satisfies offset + element size <= data_size.                           *)
C7_InsideForValidCoordinates ==
    \A width \in Widths, height \in Heights :
        ( /\ Called
          /\ call.col < width /\ call.row < height
          /\ call.format \in SupportedFormats =>
                call.stride_in_bytes >= RowBytes(call.format, width)
          /\ call.data_size_in_bytes = call.stride_in_bytes * height )
        => InsideBuffer

(* An inner pixel of a 3x3 Bgr8 frame with one byte of padding per row.    *)
C7_Witness ==
    /\ Returned /\ call.format = "Bgr8"
    /\ call.col = 1 /\ call.row = 1
    /\ call.stride_in_bytes = 10 /\ call.data_size_in_bytes = 30
    /\ pixel.refs.r = 15

(* C8: a call with a format outside the thirteen supported ones panics,    *)
(* returns no pixel value and reads no byte of the buffer; a call with one *)
(* of the thirteen never panics.                                           *)
C8_UnsupportedFormatPanics ==
    LET supported == {"Yuyv", "Uyvy", "Bgr8", "Bgra8", "Rgb8", "Rgba8", "Raw8", "Y8",
                      "Y16", "Z16", "Distance", "Disparity32", "Xyz32F"}
    IN  Called =>
        /\ call.format \notin supported =>
              pixel.outcome = "panic" /\ Touched(pixel) = {}
        /\ call.format \in supported => pixel.outcome # "panic"

C8_Witness ==
    /\ call.format = "Raw16" /\ pixel.outcome = "panic"
    /\ call.stride_in_bytes = 4 /\ call.data_size_in_bytes = 8

---------------------------------------------------------------------------
(* Properties of typed frame construction (checked under FrameSpec).       *)

(* The handle reports the (extension, kind) pair category T declares.      *)
TagsMatch(h, T) ==
    /\ frames[h].extension = extension(T)
    /\ frames[h].kind = kind(T)

(* No typed wrapper holds a handle of another extension or kind.           *)
WrappersSound ==
    \A h \in Handles :
        frames[h].owner = "wrapper" =>
            /\ frames[h].category \in Categories
            /\ TagsMatch(h, frames[h].category)

Constructs(h) ==
    /\ frames[h].owner = "caller"
    /\ result' # result
    /\ result'.handle = h

---------------------------------------------------------------------------
(* Properties of the frame handle lifecycle (checked under LifecycleSpec). *)

(* The wrapper holding h is dropped in this step.                          *)
Dropped(h) == frames[h].owner = "wrapper" /\ frames'[h].owner = "released"

(* The handle h is transferred out of its wrapper in this step.            *)
TransferredOut(h) == frames[h].owner = "wrapper" /\ frames'[h].owner = "caller"

(* C11: over the life of a frame handle the handle has one owner at a time *)
(* (the caller or one typed wrapper); release is invoked only by the drop  *)
(* of the wrapper that holds it, once, and not at all by a wrapper whose   *)
(* handle was transferred out with get_owned_raw; an accessor is only      *)
(* called on a wrapper that holds the handle, so none after get_owned_raw. *)
C11_SingleOwnerSingleRelease ==
    [][\A h \in Handles :
          /\ Dropped(h) =>
                frames[h].releases = 0 /\ frames'[h].releases = 1
          /\ TransferredOut(h) =>
                /\ frames[h].releases = 0 /\ frames'[h].releases = 0
                /\ frames'[h].category = "none"
          /\ frames'[h].releases # frames[h].releases => Dropped(h)
          /\ frames'[h].owner \in {"absent", "caller", "wrapper", "released"}
          /\ frames'[h].category # "none" <=> frames'[h].owner = "wrapper"
          /\ frames'[h].owner = "released" <=> frames'[h].releases = 1
          /\ frames'[h].owner # "released" => frames'[h].releases = 0
          /\ (read' # read /\ read'.handle = h) => frames[h].owner = "wrapper"
      ]_vars

(* A handle that was built into a typed frame, read, and then taken back   *)
(* with get_owned_raw: the caller owns it and it was never released.       *)
C11_Witness ==
    /\ result.status = "ok"
    /\ read.op = "metadata" /\ read.handle = result.handle
    /\ frames[result.handle].owner = "caller"
    /\ frames[result.handle].releases = 0

---------------------------------------------------------------------------
(* Properties of Context (checked under ContextSpec).                      *)

(* The steps of a pointer's Context values.                                *)
IntoRawStep(p) ==
    contexts'[p].raws = contexts[p].raws + 1

DropStep(p) ==
    /\ contexts'[p].wrappers = contexts[p].wrappers - 1
    /\ contexts'[p].raws = contexts[p].raws

(* into_raw never deletes, and the drop of the only wrapper of a pointer   *)
(* deletes it once.                                                        *)
ContextStepsDelete ==
    \A p \in ContextPointers :
        /\ IntoRawStep(p) => contexts'[p].deletes = contexts[p].deletes
        /\ (DropStep(p) /\ contexts[p].wrappers = 1 /\ contexts[p].raws = 0) =>
              contexts'[p].deletes = contexts[p].deletes + 1

(* C13: for any sequence of new, into_raw, from_raw (on a pointer into_raw *)
(* returned, once), unsafe_clone and drops, rs2_delete_context is invoked  *)
(* at most once per native pointer; into_raw never invokes it; the drop of *)
(* the only wrapper of a pointer invokes it exactly once.                  *)
C13_DeleteAtMostOnce ==
    [][ /\ \A p \in ContextPointers : contexts'[p].deletes <= 1
        /\ ContextStepsDelete ]_vars

---------------------------------------------------------------------------
(* Xyz32F pixels of one frame (checked under Spec).                        *)

(* C14: for Xyz32F, the pixels at two different coordinates of a frame     *)
(* (col < width, row < height, stride >= 12*width,                         *)
(* data_size = stride*height) share no element of the buffer.              *)
C14_Xyz32fPixelsDisjoint ==
    \A width \in Widths, height \in Heights, col2 \in 0..MaxCol, row2 \in 0..MaxRow :
        ( /\ Returned /\ call.format = "Xyz32F"
          /\ call.col < width /\ col2 < width
          /\ call.row < height /\ row2 < height
          /\ <<col2, row2>> # <<call.col, call.row>>
          /\ call.stride_in_bytes >= 12 * width
          /\ call.data_size_in_bytes = call.stride_in_bytes * height )
        => Touched(pixel) \cap
           Touched(get_pixel("Xyz32F", call.data_size_in_bytes,
                             call.stride_in_bytes, col2, row2)) = {}

---------------------------------------------------------------------------
(* PoseData::rotation (checked under PoseSpec).                            *)

(* C15: the quaternion returned by rotation has the sensor quaternion's w  *)
(* as its scalar part and its (x, y, z) as the vector part (i, j, k).      *)
C15_RotationKeepsRoles ==
    rotated # NoRotation =>
        /\ rotated.w = pose.w
        /\ rotated.i = pose.x
        /\ rotated.j = pose.y
        /\ rotated.k = pose.z

====
